---- MODULE Spec2Model ----
(***************************************************************************)
(* subz (src/main.py): media file -> extracted audio -> WhisperX segments  *)
(* -> SRT text -> output file.                                             *)
(*                                                                         *)
(* Times are Python floats in the source.  Here a time is an integer       *)
(* number of ticks; one millisecond is TicksPerMs ticks, an odd number, so *)
(* that every modelled time lies strictly between two half-millisecond     *)
(* points and the rounding of the ".3f" format never meets a tie.          *)
(* Python's float // and % (positive divisor) are floor division and the   *)
(* non-negative remainder, which is what \div and % are in TLA+.           *)
(*                                                                         *)
(* A Python str is a sequence of one-character strings.                    *)
(***************************************************************************)
EXTENDS Integers, Sequences, FiniteSets, TLC

\* ------------------------------------------------------------------ bounds
\* Sub-millisecond resolution of the modelled times: 2*HalfRes+1 ticks per ms.
HalfRes == 2
\* Longest segment list the transcription pipeline returns in the model.
MaxSegs == 2
\* Half-width, in ticks, of the windows of durations given to split_seconds.
Window == 6

TicksPerMs == 2 * HalfRes + 1
TicksPerSec == 1000 * TicksPerMs

Ms(n) == n * TicksPerMs
Sec(n) == n * TicksPerSec

\* ----------------------------------------------------------- str helpers
NL == "\n"

DigitChars == <<"0", "1", "2", "3", "4", "5", "6", "7", "8", "9">>

RECURSIVE NatToStr(_)
\* str(n) / "{n}" for an int n >= 0: decimal digits, no padding.
NatToStr(n) ==
    IF n < 10 THEN <<DigitChars[n + 1]>>
    ELSE NatToStr(n \div 10) \o <<DigitChars[(n % 10) + 1]>>

\* str(n) / "{n}" for any int n: a minus sign for negatives.
IntToStr(n) == IF n < 0 THEN <<"-">> \o NatToStr(-n) ELSE NatToStr(n)

\* "{x:.3f}" for a float x >= 0 given in ticks: x rounded to the nearest
\* millisecond, printed as integer part, ".", and exactly three decimals.
Fmt3f(x) ==
    LET ms == (2 * x + TicksPerMs) \div (2 * TicksPerMs)
        frac == ms % 1000
    IN  NatToStr(ms \div 1000) \o <<".">>
          \o <<DigitChars[(frac \div 100) + 1],
               DigitChars[((frac \div 10) % 10) + 1],
               DigitChars[(frac % 10) + 1]>>

\* str.replace(old, new) for one-character old and new.
Replace(s, old, new) == [i \in 1..Len(s) |-> IF s[i] = old THEN new ELSE s[i]]

Whitespace == {" ", NL, "\t"}

RECURSIVE lstrip(_)
lstrip(s) ==
    IF s # <<>> /\ Head(s) \in Whitespace THEN lstrip(Tail(s)) ELSE s

RECURSIVE rstrip(_)
rstrip(s) ==
    IF s # <<>> /\ s[Len(s)] \in Whitespace
    THEN rstrip(SubSeq(s, 1, Len(s) - 1)) ELSE s

\* str.strip(): leading and trailing whitespace removed.
strip(s) == rstrip(lstrip(s))

RECURSIVE Join(_, _)
\* sep.join(items): the items with sep between them (none after the last).
Join(sep, items) ==
    IF items = <<>> THEN <<>>
    ELSE IF Len(items) = 1 THEN items[1]
    ELSE items[1] \o sep \o Join(sep, Tail(items))

\* -------------------------------------------------------- split_seconds
\* split_seconds with the hours wrapped at 24, as a clock would show them.
split_seconds_wrap(seconds) ==
    LET s1 == seconds % Sec(3600)
    IN  <<(seconds \div Sec(3600)) % 24, s1 \div Sec(60), s1 % Sec(60)>>

\* split_seconds(seconds): (int(hours), int(minutes), seconds) with the
\* remaining seconds kept as a float (here: ticks).
split_seconds(seconds) ==
    LET hours == seconds \div Sec(3600)
        s1 == seconds % Sec(3600)
        minutes == s1 \div Sec(60)
        s2 == s1 % Sec(60)
    IN  <<hours, minutes, s2>>

\* -------------------------------------------------------- get_subtitles
\* Line 152: the time whose split is displayed as the start of an entry.
DisplayStart(segment, offset) == segment["start"] + offset

\* The end shifted by the offset, as the start is.
DisplayEnd_shifted(segment, offset) == segment["end"] + offset

\* Line 153: the time whose split is displayed as the end of an entry.
DisplayEnd(segment, offset) == segment["end"]

\* One side of the f-string of line 154, "{h}:{m}:{s:.3f}".
HmsText(hms) ==
    IntToStr(hms[1]) \o <<":">> \o IntToStr(hms[2]) \o <<":">> \o Fmt3f(hms[3])

Arrow == <<" ", "-", "-", ">", " ">>

\* Lines 152-155: the timestamp line of a segment.
Timestamp(segment, offset) ==
    LET s == split_seconds(DisplayStart(segment, offset))
        e == split_seconds(DisplayEnd(segment, offset))
    IN  Replace(HmsText(s) \o Arrow \o HmsText(e), ".", ",")

\* enumerate(segments) without start=1: indices from 0.
EntryIndex_zero(i) == i - 1

\* enumerate(segments, start=1): the index of the i-th segment (i from 1).
EntryIndex(i) == i

\* Line 156: the four list items a segment contributes.
EntryLines(i, segment, offset) ==
    <<IntToStr(EntryIndex(i)), Timestamp(segment, offset),
      strip(segment["text"]), <<>> >>

RECURSIVE SubtitleList(_, _, _)
\* Lines 150-156: the list `subtitles` after the loop ran over segments i..N.
SubtitleList(segs, offset, i) ==
    IF i > Len(segs) THEN <<>>
    ELSE EntryLines(i, segs[i], offset) \o SubtitleList(segs, offset, i + 1)

\* get_subtitles(segments, offset): "\n".join(subtitles).
get_subtitles(segs, offset) == Join(<<NL>>, SubtitleList(segs, offset, 1))

\* ------------------------------------------------------------- pathlib
\* A file name is a stem and a suffix ("" when it has none); a Path is an
\* anchor ("/" when absolute, "" when relative) and its name parts.
Name(stem, suffix) == [stem |-> stem, suffix |-> suffix]
Path(anchor, parts) == [anchor |-> anchor, parts |-> parts]

\* args.output is None / no object yet.
None == Path("none", <<>>)

\* Path.parent: the path without its last part ("." has itself as parent).
parent(p) ==
    IF p.parts = <<>> THEN p
    ELSE Path(p.anchor, SubSeq(p.parts, 1, Len(p.parts) - 1))

\* Path.with_suffix(suffix): the WHOLE path with the suffix of its last part
\* replaced.
with_suffix(p, suffix) ==
    LET n == Len(p.parts)
    IN  Path(p.anchor, [p.parts EXCEPT ![n] = Name(p.parts[n].stem, suffix)])

\* a / b: b alone when b is absolute, else the parts of a followed by b's.
PathJoin(a, b) ==
    IF b.anchor = "/" THEN b ELSE Path(a.anchor, a.parts \o b.parts)

\* p is d or lies below d.
IsUnder(p, d) ==
    /\ p.anchor = d.anchor
    /\ Len(p.parts) >= Len(d.parts)
    /\ SubSeq(p.parts, 1, Len(d.parts)) = d.parts

\* -------------------------------------------------------------- inputs
Movie == Name("movie", "mp4")
Videos == Name("videos", "")
Media == Name("media", "")

BareInput == Path("", <<Movie>>)
RelativeInput == Path("", <<Videos, Movie>>)
AbsoluteInput == Path("/", <<Media, Movie>>)
MissingInput == Path("", <<Name("missing", "mp4")>>)
DirInput == Path("", <<Videos>>)

\* Values of the positional argument `file`.
InputPaths == {BareInput, RelativeInput, AbsoluteInput, MissingInput, DirInput}

\* Values of --output when it is given.
OutputPaths ==
    { Path("", <<Name("out", "srt")>>),
      Path("/", <<Media, Name("movie", "wav")>>),
      Path("", <<Name("nodir", ""), Name("out", "srt")>>) }

\* The directory tempfile.TemporaryDirectory() creates.
TmpDir == Path("/", <<Name("tmp", ""), Name("tmpsubz", "")>>)

\* Directories and regular files on disk when the program starts.
InitDirs ==
    { Path("", <<>>), Path("/", <<>>), Path("", <<Videos>>),
      Path("/", <<Media>>), Path("/", <<Name("tmp", "")>>) }
InitFiles == {BareInput, RelativeInput, AbsoluteInput}

\* Texts of segments: whitespace around them as WhisperX leaves it.
Texts == { <<" ", "H", "i", " ">>, <<"W">>, <<" ", NL>> }

\* Times (ticks) of segment starts and ends, and values of --offset.
StartTimes == {0, Sec(60) - 1, Ms(61500)}
EndTimes == {Ms(1500), Sec(60) - 1, Sec(3600) + 2}
Offsets == {0, Ms(500), 0 - Ms(500), Sec(3600) - Ms(61500) - 1}

Segment(s, e, t) == [start |-> s, end |-> e, text |-> t]

\* Segments as the aligner returns them: 0 <= start <= end.
Segments ==
    { seg \in { Segment(s, e, t) : s \in StartTimes, e \in EndTimes, t \in Texts } :
        seg.start <= seg.end }

WellFormed(seg) == {"start", "end", "text"} \subseteq DOMAIN seg

RECURSIVE SeqsUpTo(_, _)
\* The sequences over S of length at most n.
SeqsUpTo(S, n) ==
    IF n = 0 THEN {<<>>}
    ELSE LET shorter == SeqsUpTo(S, n - 1)
         IN  shorter \cup {Append(q, x) : q \in shorter, x \in S}

\* Results of the transcription pipeline in the runs of the whole program:
\* empty, well-formed, and one whose second segment lacks the "end" key.
PipelineResults ==
    { <<>>,
      <<Segment(0, Ms(1500), <<" ", "H", "i", " ">>)>>,
      <<Segment(0, Ms(1500), <<" ", "H", "i", " ">>),
        Segment(Ms(61500), Sec(3600) + 2, <<"W">>)>>,
      <<Segment(0, Ms(1500), <<"W">>), [start |-> 0, text |-> <<"W">>]>> }

\* Durations (ticks) given to split_seconds: windows around the carries.
DurationBases == {0, Sec(60), Sec(3600), Ms(3661250), Sec(86400), Sec(90000)}
Durations == { d \in { b + w - Window : b \in DurationBases, w \in 0..(2 * Window) } : d >= 0 }

\* ---------------------------------------------------------------- state
VARIABLES
    pc,         \* position in the run
    args,       \* the parsed command line: file, output, offset
    dirs,       \* directories on disk
    files,      \* regular files on disk
    written,    \* paths created or modified on disk since the start
    src,        \* Path(args.file)
    dest,       \* the destination path
    tmp,        \* the temporary directory, once entered
    tmp_dest,   \* the path given to ffmpeg as its output
    segments,   \* what get_segments returned
    subtitles,  \* what get_subtitles returned
    dest_text,  \* what the run put into the file opened at dest
    events,     \* the external calls made so far, in order
    err,        \* the exception that ended the run
    seconds,    \* argument of a call of split_seconds
    hms         \* its result

vars == <<pc, args, dirs, files, written, src, dest, tmp, tmp_dest, segments,
          subtitles, dest_text, events, err, seconds, hms>>

NoText == <<"<unset>">>

\* Path.exists() in place of is_file(): directories pass too.
is_file_exists(p) == p \in files \cup dirs

\* Path.is_file(): the path names an existing regular file.
is_file(p) == p \in files

\* ------------------------------------------------- the run of __main__
Init ==
    /\ pc = "start"
    /\ args \in [file : InputPaths, output : {None} \cup OutputPaths,
                 offset : {0, Ms(500)}]
    /\ dirs = InitDirs
    /\ files = InitFiles
    /\ written = {}
    /\ src = None
    /\ dest = None
    /\ tmp = None
    /\ tmp_dest = None
    /\ segments = <<>>
    /\ subtitles = NoText
    /\ dest_text = NoText
    /\ events = <<>>
    /\ err = "none"
    /\ seconds = 0
    /\ hms = <<0, 0, 0>>

\* Lines 166-169: the input path must be an existing regular file.
CheckInput ==
    /\ pc = "start"
    /\ src' = args.file
    /\ IF is_file(args.file)
       THEN pc' = "checked" /\ err' = err
       ELSE pc' = "failed" /\ err' = "FileNotFoundError"
    /\ UNCHANGED <<args, dirs, files, written, dest, tmp, tmp_dest, segments,
                   subtitles, dest_text, events, seconds, hms>>

\* Lines 171-175: the destination path.
DeriveDest ==
    /\ pc = "checked"
    /\ dest' = IF args.output = None
               THEN PathJoin(parent(src), with_suffix(src, "srt"))
               ELSE args.output
    /\ pc' = "dest"
    /\ UNCHANGED <<args, dirs, files, written, src, tmp, tmp_dest, segments,
                   subtitles, dest_text, events, err, seconds, hms>>

\* Line 178: entering `with tempfile.TemporaryDirectory() as tmp`.
EnterTmp ==
    /\ pc = "dest"
    /\ tmp' = TmpDir
    /\ dirs' = dirs \cup {TmpDir}
    /\ events' = Append(events, "mkdtemp")
    /\ pc' = "in_tmp"
    /\ UNCHANGED <<args, files, written, src, dest, tmp_dest, segments,
                   subtitles, dest_text, err, seconds, hms>>

\* Lines 187-188, ffmpeg succeeds: it can only when the directory of its
\* output file exists; the output file is created or overwritten.
ExtractOk ==
    /\ pc = "in_tmp"
    /\ LET out == PathJoin(tmp, with_suffix(src, "wav"))
       IN  /\ parent(out) \in dirs
           /\ tmp_dest' = out
           /\ files' = files \cup {out}
           /\ written' = written \cup {out}
    /\ events' = Append(events, "ffmpeg")
    /\ pc' = "extracted"
    /\ UNCHANGED <<args, dirs, src, dest, tmp, segments, subtitles, dest_text,
                   err, seconds, hms>>

\* Lines 187-188, ffmpeg fails (no such track, unreadable input, no directory
\* for its output); it may leave a partial output file behind.
ExtractFail ==
    /\ pc = "in_tmp"
    /\ LET out == PathJoin(tmp, with_suffix(src, "wav"))
       IN  /\ tmp_dest' = out
           /\ \E partial \in BOOLEAN :
                /\ partial => parent(out) \in dirs
                /\ files' = IF partial THEN files \cup {out} ELSE files
                /\ written' = IF partial THEN written \cup {out} ELSE written
    /\ events' = Append(events, "ffmpeg")
    /\ err' = "ffmpeg.Error"
    /\ pc' = "exiting"
    /\ UNCHANGED <<args, dirs, src, dest, tmp, segments, subtitles, dest_text,
                   seconds, hms>>

\* Line 190: the transcription pipeline returns its segments.
GetSegmentsOk ==
    /\ pc = "extracted"
    /\ \E result \in PipelineResults : segments' = result
    /\ events' = Append(events, "get_segments")
    /\ pc' = "segments"
    /\ UNCHANGED <<args, dirs, files, written, src, dest, tmp, tmp_dest,
                   subtitles, dest_text, err, seconds, hms>>

\* Line 190: the transcription pipeline raises.
GetSegmentsFail ==
    /\ pc = "extracted"
    /\ events' = Append(events, "get_segments")
    /\ err' = "PipelineError"
    /\ pc' = "exiting"
    /\ UNCHANGED <<args, dirs, files, written, src, dest, tmp, tmp_dest,
                   segments, subtitles, dest_text, seconds, hms>>

\* Line 192: serialization; a segment without one of its keys raises KeyError.
Serialize ==
    /\ pc = "segments"
    /\ events' = Append(events, "get_subtitles")
    /\ IF \A i \in 1..Len(segments) : WellFormed(segments[i])
       THEN /\ subtitles' = get_subtitles(segments, args.offset)
            /\ pc' = "serialized"
            /\ err' = err
       ELSE /\ subtitles' = subtitles
            /\ pc' = "exiting"
            /\ err' = "KeyError"
    /\ UNCHANGED <<args, dirs, files, written, src, dest, tmp, tmp_dest,
                   segments, dest_text, seconds, hms>>

\* Line 193: open(dest, "w") creates or truncates the file; it needs the
\* directory of dest to exist and dest not to be a directory.
OpenDest ==
    /\ pc = "serialized"
    /\ events' = Append(events, "open")
    /\ \E allowed \in BOOLEAN :
         IF allowed /\ parent(dest) \in dirs /\ dest \notin dirs
         THEN /\ files' = files \cup {dest}
              /\ written' = written \cup {dest}
              /\ dest_text' = <<>>
              /\ pc' = "opened"
              /\ err' = err
         ELSE /\ UNCHANGED <<files, written, dest_text>>
              /\ pc' = "exiting"
              /\ err' = "OSError"
    /\ UNCHANGED <<args, dirs, src, dest, tmp, tmp_dest, segments, subtitles,
                   seconds, hms>>

\* Line 194 and the end of the inner `with`: the text is written and the
\* file closed, or the write raises.
WriteDest ==
    /\ pc = "opened"
    /\ events' = Append(events, "write")
    /\ \/ /\ dest_text' = subtitles
          /\ pc' = "written"
          /\ err' = err
       \/ /\ dest_text' = dest_text
          /\ pc' = "exiting"
          /\ err' = "OSError"
    /\ UNCHANGED <<args, dirs, files, written, src, dest, tmp, tmp_dest,
                   segments, subtitles, seconds, hms>>

\* Lines 196-198: the success message.
PrintSaved ==
    /\ pc = "written"
    /\ events' = Append(events, "print")
    /\ pc' = "exiting"
    /\ UNCHANGED <<args, dirs, files, written, src, dest, tmp, tmp_dest,
                   segments, subtitles, dest_text, err, seconds, hms>>

\* Leaving the `with` of line 178, normally or by an exception: the
\* temporary directory is removed with everything below it.
ExitTmp ==
    /\ pc = "exiting"
    /\ dirs' = {d \in dirs : ~IsUnder(d, tmp)}
    /\ files' = {f \in files : ~IsUnder(f, tmp)}
    /\ events' = Append(events, "cleanup")
    /\ pc' = IF err = "none" THEN "done" ELSE "failed"
    /\ UNCHANGED <<args, written, src, dest, tmp, tmp_dest, segments,
                   subtitles, dest_text, err, seconds, hms>>

Next ==
    \/ CheckInput
    \/ DeriveDest
    \/ EnterTmp
    \/ ExtractOk
    \/ ExtractFail
    \/ GetSegmentsOk
    \/ GetSegmentsFail
    \/ Serialize
    \/ OpenDest
    \/ WriteDest
    \/ PrintSaved
    \/ ExitTmp

Spec == Init /\ [][Next]_vars

\* ------------------------------------------- get_subtitles on its own
InitSubs ==
    /\ pc = "call"
    /\ args \in [file : {BareInput}, output : {None}, offset : Offsets]
    /\ segments \in SeqsUpTo(Segments, MaxSegs)
    /\ dirs = InitDirs
    /\ files = InitFiles
    /\ written = {}
    /\ src = None
    /\ dest = None
    /\ tmp = None
    /\ tmp_dest = None
    /\ subtitles = NoText
    /\ dest_text = NoText
    /\ events = <<>>
    /\ err = "none"
    /\ seconds = 0
    /\ hms = <<0, 0, 0>>

\* Line 192 alone: subtitles = get_subtitles(segments, args.offset).
CallGetSubtitles ==
    /\ pc = "call"
    /\ subtitles' = get_subtitles(segments, args.offset)
    /\ pc' = "returned"
    /\ UNCHANGED <<args, dirs, files, written, src, dest, tmp, tmp_dest,
                   segments, dest_text, events, err, seconds, hms>>

NextSubs == CallGetSubtitles

SpecSubs == InitSubs /\ [][NextSubs]_vars

\* ------------------------------------------- split_seconds on its own
InitSplit ==
    /\ pc = "call"
    /\ seconds \in Durations
    /\ hms = <<0, 0, 0>>
    /\ args = [file |-> BareInput, output |-> None, offset |-> 0]
    /\ segments = <<>>
    /\ dirs = InitDirs
    /\ files = InitFiles
    /\ written = {}
    /\ src = None
    /\ dest = None
    /\ tmp = None
    /\ tmp_dest = None
    /\ subtitles = NoText
    /\ dest_text = NoText
    /\ events = <<>>
    /\ err = "none"

\* hms = split_seconds(seconds).
CallSplitSeconds ==
    /\ pc = "call"
    /\ hms' = split_seconds(seconds)
    /\ pc' = "returned"
    /\ UNCHANGED <<args, dirs, files, written, src, dest, tmp, tmp_dest,
                   segments, subtitles, dest_text, events, err, seconds>>

NextSplit == CallSplitSeconds

SpecSplit == InitSplit /\ [][NextSplit]_vars

\* ================================================================ claims
\* Reading a document back: its lines, and the two stamps of a timestamp line.
RECURSIVE SplitBy(_, _)
\* The pieces of s between the occurrences of the character c.
SplitBy(s, c) ==
    IF \A i \in 1..Len(s) : s[i] # c THEN <<s>>
    ELSE LET i == CHOOSE j \in 1..Len(s) :
                    s[j] = c /\ \A k \in 1..(j - 1) : s[k] # c
         IN  <<SubSeq(s, 1, i - 1)>> \o SplitBy(SubSeq(s, i + 1, Len(s)), c)

DocLines(doc) == SplitBy(doc, NL)
IndexLine(doc, k) == DocLines(doc)[4 * (k - 1) + 1]
TimeLine(doc, k) == DocLines(doc)[4 * (k - 1) + 2]
TextLine(doc, k) == DocLines(doc)[4 * (k - 1) + 3]
BlankLine(doc, k) == DocLines(doc)[4 * (k - 1) + 4]
StartStamp(doc, k) == SplitBy(TimeLine(doc, k), " ")[1]
EndStamp(doc, k) == SplitBy(TimeLine(doc, k), " ")[3]

IsDigits(s) == \A i \in 1..Len(s) : \E d \in 1..10 : s[i] = DigitChars[d]

RECURSIVE DigitsValue(_)
DigitsValue(s) ==
    IF s = <<>> THEN 0
    ELSE 10 * DigitsValue(SubSeq(s, 1, Len(s) - 1))
           + ((CHOOSE d \in 1..10 : s[Len(s)] = DigitChars[d]) - 1)

\* The stamp reads H:MM:SS,mmm.
IsSrtStamp(st) ==
    LET f == SplitBy(st, ":")
    IN  /\ Len(f) = 3
        /\ Len(f[1]) >= 1 /\ IsDigits(f[1])
        /\ (Len(f[1]) > 1 => f[1][1] # "0")
        /\ Len(f[2]) = 2 /\ IsDigits(f[2])
        /\ LET sec == SplitBy(f[3], ",")
           IN  /\ Len(sec) = 2
               /\ Len(sec[1]) = 2 /\ IsDigits(sec[1])
               /\ Len(sec[2]) = 3 /\ IsDigits(sec[2])

\* The seconds field (before the comma) and the whole value in milliseconds
\* of a stamp h:m:s,mmm with a non-negative hour.
StampSeconds(st) == DigitsValue(SplitBy(SplitBy(st, ":")[3], ",")[1])
StampMillis(st) ==
    LET f == SplitBy(st, ":")
        sec == SplitBy(f[3], ",")
    IN  DigitsValue(f[1]) * 3600000 + DigitsValue(f[2]) * 60000
          + DigitsValue(sec[1]) * 1000 + DigitsValue(sec[2])

\* t (ticks) rounded to the nearest millisecond.
RoundMs(t) == (2 * t + TicksPerMs) \div (2 * TicksPerMs)

Returned == pc = "returned"

RECURSIVE TerminatedEntries(_, _, _)
\* Entries i..N, each as four newline-terminated lines.
TerminatedEntries(segs, offset, i) ==
    IF i > Len(segs) THEN <<>>
    ELSE NatToStr(i) \o <<NL>> \o Timestamp(segs[i], offset) \o <<NL>>
           \o strip(segs[i]["text"]) \o <<NL>> \o <<NL>>
           \o TerminatedEntries(segs, offset, i + 1)

\* C1: the document get_subtitles returns is the in-order concatenation of
\* four newline-terminated lines per segment (index, timestamp line,
\* stripped text, empty line), so a non-empty document ends with "\n\n".
C1_FourTerminatedLines ==
    Returned =>
        /\ subtitles = TerminatedEntries(segments, args.offset, 1)
        /\ segments # <<>> =>
             /\ Len(subtitles) >= 2
             /\ subtitles[Len(subtitles)] = NL
             /\ subtitles[Len(subtitles) - 1] = NL

\* C2: every rendered timestamp of a non-negative time has the shape
\* H:MM:SS,mmm (minutes and seconds two digits, milliseconds three).
C2_SrtStampShape ==
    Returned =>
        \A k \in 1..Len(segments) :
            /\ segments[k]["start"] + args.offset >= 0
                 => IsSrtStamp(StartStamp(subtitles, k))
            /\ IsSrtStamp(EndStamp(subtitles, k))

\* C3: the offset shifts start times only: the end stamp of every entry is
\* the rendering of split_seconds(end) and is the same under every other
\* offset; the start stamp is the rendering of split_seconds(start + offset).
C3_OffsetShiftsStartOnly ==
    Returned =>
        \A k \in 1..Len(segments) :
            /\ EndStamp(subtitles, k)
                 = Replace(HmsText(split_seconds(segments[k]["end"])), ".", ",")
            /\ StartStamp(subtitles, k)
                 = Replace(HmsText(split_seconds(segments[k]["start"] + args.offset)),
                           ".", ",")
            /\ \A o2 \in Offsets :
                 EndStamp(get_subtitles(segments, o2), k) = EndStamp(subtitles, k)

\* A call with a non-zero offset returned a document of two entries.
C3_Witness ==
    Returned /\ Len(segments) = 2 /\ args.offset # 0 /\ subtitles # NoText

\* C4: N segments give exactly N entries, numbered 1..N in order, the k-th
\* carrying the text and times of the k-th segment; none give the empty
\* document.
C4_EntriesInOrder ==
    Returned =>
        /\ segments = <<>> => subtitles = <<>>
        /\ segments # <<>> => Len(DocLines(subtitles)) = 4 * Len(segments)
        /\ \A k \in 1..Len(segments) :
             /\ IsDigits(IndexLine(subtitles, k))
             /\ DigitsValue(IndexLine(subtitles, k)) = k
             /\ Len(IndexLine(subtitles, k)) = Len(NatToStr(k))
             /\ TextLine(subtitles, k) = strip(segments[k]["text"])
             /\ TimeLine(subtitles, k) = Timestamp(segments[k], args.offset)
             /\ BlankLine(subtitles, k) = <<>>

\* A call returned a document for two segments with different texts.
C4_Witness ==
    /\ Returned /\ Len(segments) = 2 /\ subtitles # NoText
    /\ segments[1]["text"] # segments[2]["text"]

\* C5: split_seconds(s) = (h, m, rem) with h*3600 + m*60 + rem = s,
\* 0 <= m < 60, 0 <= rem < 60, h >= 0 and h not wrapped at 24:
\* 3661.25 s gives (1, 1, 1.25) and 90000 s gives h = 25.
C5_SplitSeconds ==
    Returned =>
        /\ hms[1] * Sec(3600) + hms[2] * Sec(60) + hms[3] = seconds
        /\ 0 <= hms[2] /\ hms[2] < 60
        /\ 0 <= hms[3] /\ hms[3] < Sec(60)
        /\ hms[1] >= 0
        /\ seconds = Ms(3661250) => hms = <<1, 1, Ms(1250)>>
        /\ seconds = Sec(90000) => hms[1] = 25

\* split_seconds returned for 90000 seconds.
C5_Witness == Returned /\ seconds = Sec(90000) /\ hms[1] = 25

\* The sibling of p with the suffix replaced: parent / (name with suffix).
Sibling(p, suffix) ==
    Path(p.anchor, [p.parts EXCEPT ![Len(p.parts)] =
                        Name(p.parts[Len(p.parts)].stem, suffix)])

\* C6: without --output the destination is the input's parent directory
\* joined with the input's name with its extension replaced by .srt.
C6_DestIsSibling ==
    (dest # None /\ args.output = None) => dest = Sibling(src, "srt")

\* C7: in a run that passed the input check the extracted audio file is
\* created inside the temporary directory and is gone when the run ends.
C7_AudioScopedToTmp ==
    /\ tmp_dest \in written => IsUnder(tmp_dest, tmp)
    /\ (pc \in {"done", "failed"} /\ tmp # None) => tmp_dest \notin files

\* C8: an input path that is no existing regular file ends the run with
\* FileNotFoundError and nothing else: no temporary directory, no call of
\* ffmpeg or the pipeline, no file created or modified.
C8_MissingInputStopsRun ==
    args.file \notin InitFiles =>
        /\ pc \in {"start", "failed"}
        /\ pc = "failed" => err = "FileNotFoundError"
        /\ events = <<>>
        /\ tmp = None
        /\ written = {}
        /\ dirs = InitDirs /\ files = InitFiles

\* The run ended on a path that names a directory.
C8_Witness == pc = "failed" /\ args.file = DirInput /\ err = "FileNotFoundError"

Count(e) == Cardinality({i \in 1..Len(events) : events[i] = e})
Position(e) == CHOOSE i \in 1..Len(events) : events[i] = e

\* C9: the output file is opened only after extraction, pipeline and
\* serialization completed, in that order, each at most once; a run in which
\* extraction or the pipeline failed neither creates nor modifies the output
\* path; the success message comes only after the completed write.
C9_OutputWrittenLast ==
    /\ \A e \in {"ffmpeg", "get_segments", "get_subtitles", "open", "write", "print"} :
         Count(e) <= 1
    /\ Count("open") = 1 =>
         /\ SubSeq(events, 1, Position("open"))
              = <<"mkdtemp", "ffmpeg", "get_segments", "get_subtitles", "open">>
         /\ subtitles # NoText
    /\ err \in {"ffmpeg.Error", "PipelineError"} => dest \notin written
    /\ Count("print") = 1 =>
         /\ Count("write") = 1 /\ Position("write") < Position("print")
         /\ dest_text = subtitles

\* C10: for a non-negative time the rendered seconds field is below 60 and
\* the rendered value is the time rounded to the nearest millisecond.
C10_SecondsBelowSixty ==
    Returned =>
        \A k \in 1..Len(segments) :
            /\ segments[k]["start"] + args.offset >= 0 =>
                 /\ StampSeconds(StartStamp(subtitles, k)) < 60
                 /\ StampMillis(StartStamp(subtitles, k))
                      = RoundMs(segments[k]["start"] + args.offset)
            /\ StampSeconds(EndStamp(subtitles, k)) < 60
            /\ StampMillis(EndStamp(subtitles, k)) = RoundMs(segments[k]["end"])

====
